---- MODULE Spec2Model ----
(***************************************************************************)
(* Model of the mgtv_mysql database plugin: the MgtvMysql lifecycle        *)
(* operations NewUser (Issue) and DeleteUser (Revoke) of mgtv_mysql.go,    *)
(* running concurrently over one mgtvMysqlConnectionProducer and its       *)
(* embedded sync.Mutex.                                                    *)
(*                                                                         *)
(* Strings the code computes on (usernames) are sequences of one-character *)
(* strings; strings it only passes around (passwords, tokens, JSON string   *)
(* values, error causes) are atomic.                                       *)
(***************************************************************************)
EXTENDS Integers, Sequences, FiniteSets, TLC

\* ------------------------------------------------------------------ bounds
NumProcs == 2      \* concurrent callers of the plugin
MaxGenLen == 15    \* longest name credsutil.GenerateUsername yields in the model
MaxCommands == 2   \* longest Statements.Commands list

\* --------------------------------------------------------- program constants
maxKeyLength == 13
addUser == "AddUser"
delUser == "VaultDelUser"

Procs == 1..NumProcs

\* ------------------------------------------------------------ JSON and Go values
\* A number is h * 2^30 + n, with n below 2^30 when h is not 0.
\* A JSON value as it stands in a text (a statement, a response body).
JNum(n) == [j |-> "number", n |-> n, h |-> 0, s |-> "", u |-> <<>>]
JBigNum(h, n) == [j |-> "number", n |-> n, h |-> h, s |-> "", u |-> <<>>]
JStr(s) == [j |-> "string", n |-> 0, h |-> 0, s |-> s, u |-> <<>>]
JBool(b) == [j |-> "bool", n |-> IF b THEN 1 ELSE 0, h |-> 0, s |-> "", u |-> <<>>]
JNull == [j |-> "null", n |-> 0, h |-> 0, s |-> "", u |-> <<>>]

\* A Go interface{} value: its dynamic type t and its value. A string is the
\* atomic s, or the character sequence u when the code has computed it.
GoFloat(n) == [t |-> "float64", n |-> n, h |-> 0, s |-> "", u |-> <<>>]
GoInt(n) == [t |-> "int", n |-> n, h |-> 0, s |-> "", u |-> <<>>]
GoString(s) == [t |-> "string", n |-> 0, h |-> 0, s |-> s, u |-> <<>>]
GoChars(u) == [t |-> "string", n |-> 0, h |-> 0, s |-> "", u |-> u]
GoBool(n) == [t |-> "bool", n |-> n, h |-> 0, s |-> "", u |-> <<>>]
GoNil == [t |-> "nil", n |-> 0, h |-> 0, s |-> "", u |-> <<>>]

\* A JSON text: an object with its members, the literal null, or anything
\* json.Unmarshal rejects for a map target (a syntax error, an array, a number).
EmptyMap == [k \in {} |-> GoNil]
JObject(f) == [kind |-> "object", fields |-> f]
JNullText == [kind |-> "null", fields |-> EmptyMap]
JBadText == [kind |-> "bad", fields |-> EmptyMap]

\* The float64 nearest to the integer h * 2^30 + n, ties to the even
\* mantissa: exact below 2^53, a multiple of 2 from there to 2^54 (the
\* numbers of the model stay below 2^54).
Float64Of(h, n) ==
    IF h < 2^23 \/ n % 2 = 0
    THEN [h |-> h, n |-> n]
    ELSE LET down == n - 1
             near == IF (down \div 2) % 2 = 0 THEN down ELSE n + 1
         IN  IF near = 2^30 THEN [h |-> h + 1, n |-> 0] ELSE [h |-> h, n |-> near]

\* encoding/json decoding one value into interface{}: a number becomes a
\* float64.
DecodeValue(v) ==
    CASE v.j = "number" ->
           [t |-> "float64", n |-> Float64Of(v.h, v.n).n, h |-> Float64Of(v.h, v.n).h,
            s |-> "", u |-> <<>>]
      [] v.j = "string" -> [t |-> "string", n |-> 0, h |-> 0, s |-> v.s, u |-> v.u]
      [] v.j = "bool" -> GoBool(v.n)
      [] OTHER -> GoNil

\* encoding/json encoding one interface{} value.
EncodeValue(g) ==
    CASE g.t \in {"float64", "int"} -> JBigNum(g.h, g.n)
      [] g.t = "string" -> [j |-> "string", n |-> 0, h |-> 0, s |-> g.s, u |-> g.u]
      [] g.t = "bool" -> [j |-> "bool", n |-> g.n, h |-> 0, s |-> "", u |-> <<>>]
      [] OTHER -> JNull

\* json.Unmarshal(text, &m) for m a map[string]interface{}: an error, or the
\* map; the literal null leaves a nil map (isNil) and no error.
Unmarshal(text) ==
    CASE text.kind = "object" ->
           [err |-> "", isNil |-> FALSE,
            m |-> [k \in DOMAIN text.fields |-> DecodeValue(text.fields[k])]]
      [] text.kind = "null" -> [err |-> "", isNil |-> TRUE, m |-> EmptyMap]
      [] OTHER -> [err |-> "json: cannot unmarshal", isNil |-> FALSE, m |-> EmptyMap]

\* json.Marshal of a map[string]interface{}.
Marshal(m) == JObject([k \in DOMAIN m |-> EncodeValue(m[k])])

\* m[k] of a Go map read through interface{}: nil when the key is absent.
MapGet(m, k) == IF k \in DOMAIN m THEN m[k] ELSE GoNil

\* m[k] = v
MapSet(m, k, v) == (k :> v) @@ m

\* ------------------------------------------------------------------ messages
\* An error message is the sequence of the segments fmt put into it.
Lit(s) == [k |-> "lit", s |-> s, u |-> <<>>, n |-> 0]
NameSeg(u) == [k |-> "string", s |-> "", u |-> u, n |-> 0]
ErrSeg(s) == [k |-> "error", s |-> s, u |-> <<>>, n |-> 0]

\* fmt's %s applied to a string, and to an interface{} holding any value: a
\* string prints as itself, everything else as fmt's bad-verb notation.
FmtS(g) ==
    CASE g.t = "string" -> [k |-> "string", s |-> g.s, u |-> g.u, n |-> 0]
      [] g.t = "nil" -> [k |-> "%!s(<nil>)", s |-> "", u |-> <<>>, n |-> 0]
      [] OTHER -> [k |-> "%!s(" \o g.t \o "=)", s |-> "", u |-> <<>>, n |-> g.n]

\* fmt's "% f" applied to a string: the bad-verb notation "%!f(string= ...)".
FmtSpaceF(u) == [k |-> "%!f(string=)", s |-> "", u |-> u, n |-> 0]

NoMsg == <<>>

\* ------------------------------------------------------------------ usernames
ToUpperChar(c) ==
    CASE c = "v" -> "V" [] c = "a" -> "A" [] c = "b" -> "B" [] c = "r" -> "R"
      [] c = "w" -> "W" [] OTHER -> c

\* strings.ToUpper
ToUpper(str) == [i \in 1..Len(str) |-> ToUpperChar(str[i])]

\* nameTrunc that never cuts.
nameTruncNone(str, l) == str

\* nameTrunc that keeps one character too many: str[:l+1].
nameTruncOffByOne(str, l) ==
    IF l > 0
    THEN IF l >= Len(str) THEN str ELSE SubSeq(str, 1, l + 1)
    ELSE IF l = 0 THEN str ELSE <<>>

\* nameTrunc(str, l)
nameTrunc(str, l) ==
    IF l > 0
    THEN IF l > Len(str) THEN str ELSE SubSeq(str, 1, l)
    ELSE IF l = 0 THEN str ELSE <<>>

\* fmt.Sprintf("%s_%s", username, suffix)
Suffixed(username, suffix) == username \o <<"_">> \o suffix

\* --------------------------------------------------------------- call results
\* What a call hands back to the host: a response and a nil error ("ok"), a
\* zero response and an error ("error"), or a run-time panic that unwinds the
\* call ("panic"). username is NewUserResponse.Username.
NoResult == [kind |-> "none", msg |-> NoMsg, username |-> <<>>]
Ok(username) == [kind |-> "ok", msg |-> NoMsg, username |-> username]
Err(msg) == [kind |-> "error", msg |-> msg, username |-> <<>>]
Panic(s) == [kind |-> "panic", msg |-> <<ErrSeg(s)>>, username |-> <<>>]

NoRequest == [kind |-> "none", fields |-> EmptyMap]
NoResponse == [err |-> "", code |-> 0, readErr |-> "", body |-> JBadText]

\* ------------------------------------------------------------------- NewUser
\* The token check left out.
TokenMissingNever(token) == FALSE

\* A token check that also refuses one particular token.
TokenMissingOrRefused(token) == token \in {"", "tokB"}

\* len(token) == 0
TokenMissing(token) == token = ""

\* The check for several statements left out.
TooManyStatementsNever(statements) == FALSE

\* len(statements) > 1
TooManyStatements(statements) == Len(statements) > 1

\* len(statements) == 0
NoStatements(statements) == Len(statements) = 0

\* body["priv"] != nil && body["priv"] != 0 && body["priv"] != "0": interface
\* values are equal when their dynamic types and their values are; the
\* constant 0 is an int and "0" a string.
IsPrivileged(body) ==
    LET priv == MapGet(body, "priv")
    IN  priv # GoNil /\ priv # GoInt(0) /\ priv # GoString("0")

\* The request body NewUser builds from the decoded statement.
NewUserRequestBody(body, username, password, token) ==
    MapSet(MapSet(MapSet(MapSet(body, "username", GoChars(username)),
                         "password", GoString(password)),
                  "action", GoString(addUser)),
           "token", GoString(token))

\* NewUser from the generated username to the call of httpClient.Post: either
\* it returns (returned, with result), or it dispatches request. tokenRead
\* says whether os.Getenv was reached, username is the local variable.
NewUserPrepare(genName, genErr, token, statements, password) ==
    LET truncated == nameTrunc(genName, maxKeyLength)
        upper == ToUpper(truncated)
        early(res, read, name) ==
            [returned |-> TRUE, result |-> res, tokenRead |-> read,
             username |-> name, request |-> NoRequest]
    IN  IF genErr # ""
        THEN early(Err(<<Lit("failed to generate username: "), ErrSeg(genErr)>>),
                   FALSE, truncated)
        ELSE IF TokenMissing(token)
        THEN early(Err(<<Lit("not exist mysql token")>>), TRUE, upper)
        ELSE IF TooManyStatements(statements)
        THEN early(Err(<<Lit("a maximum of one create_statement is supported")>>),
                   TRUE, upper)
        ELSE IF NoStatements(statements)
        THEN early(Err(<<Lit("create_statement is empty")>>), TRUE, upper)
        ELSE LET dec == Unmarshal(statements[1])
                 username == IF IsPrivileged(dec.m)
                             THEN Suffixed(upper, <<"r", "w">>)
                             ELSE Suffixed(upper, <<"r">>)
             IN  IF dec.err # ""
                 THEN early(Err(<<ErrSeg(dec.err)>>), TRUE, upper)
                 ELSE IF dec.isNil
                 THEN early(Panic("assignment to entry in nil map"), TRUE, username)
                 ELSE [returned |-> FALSE, result |-> NoResult, tokenRead |-> TRUE,
                       username |-> username,
                       request |-> Marshal(NewUserRequestBody(dec.m, username,
                                                              password, token))]

\* response.StatusCode != 200
BadStatusCode(code) == code # 200

\* NewUser on the return of httpClient.Post: the transport error and the
\* status code. Not returned means the body is read next.
NewUserOnPost(username, resp) ==
    IF resp.err # ""
    THEN [returned |-> TRUE,
          result |-> Err(<<Lit("invoke db create user: "), NameSeg(username),
                           Lit(" failed: "), ErrSeg(resp.err)>>)]
    ELSE IF BadStatusCode(resp.code)
    THEN [returned |-> TRUE,
          result |-> Err(<<Lit("invoke db create user:"), NameSeg(username),
                           Lit(" failed: http statusCode: "),
                           FmtS(GoInt(resp.code))>>)]
    ELSE [returned |-> FALSE, result |-> NoResult]

\* A conversion that accepts a value of any type.
IsFloat64Any(g) == TRUE

\* status.(float64): the assertion holds for a float64 and panics otherwise.
IsFloat64(g) == g.t = "float64"

\* The status of the body ignored.
StatusRejectedNever(status) == FALSE

\* status.(float64) != 0 on a status the assertion accepts
StatusRejected(status) == status.n # 0 \/ status.h # 0

\* NewUser from ioutil.ReadAll to its return.
NewUserOnBody(username, resp) ==
    LET dec == Unmarshal(resp.body)
        status == MapGet(dec.m, "status")
        failed(seg) == Err(<<Lit("invoke db create user:"), NameSeg(username),
                             Lit(" failed: "), seg>>)
    IN  IF resp.readErr # "" THEN failed(ErrSeg(resp.readErr))
        ELSE IF dec.err # "" THEN failed(ErrSeg(dec.err))
        ELSE IF ~IsFloat64(status)
        THEN Panic("interface conversion: interface {} is not float64")
        ELSE IF StatusRejected(status) THEN failed(FmtS(MapGet(dec.m, "error")))
        ELSE Ok(username)

\* ---------------------------------------------------------------- DeleteUser
\* The request body DeleteUser builds from the decoded statement.
DeleteUserRequestBody(revocation, username, token) ==
    MapSet(MapSet(MapSet(revocation, "action", GoString(delUser)),
                  "token", GoString(token)),
           "username", GoChars(username))

\* DeleteUser up to the call of httpClient.Post.
DeleteUserPrepare(username, token, statements) ==
    LET early(res, read) ==
            [returned |-> TRUE, result |-> res, tokenRead |-> read,
             username |-> username, request |-> NoRequest]
    IN  IF NoStatements(statements)
        THEN early(Err(<<Lit("revocation "), FmtSpaceF(username),
                         Lit("ailed,Revocation Statements is empty")>>), FALSE)
        ELSE LET dec == Unmarshal(statements[1])
             IN  IF dec.err # ""
                 THEN early(Err(<<ErrSeg(dec.err)>>), FALSE)
                 ELSE IF dec.isNil
                 THEN early(Panic("assignment to entry in nil map"), FALSE)
                 ELSE [returned |-> FALSE, result |-> NoResult, tokenRead |-> TRUE,
                       username |-> username,
                       request |-> Marshal(DeleteUserRequestBody(dec.m, username,
                                                                 token))]

\* DeleteUser on the return of httpClient.Post.
DeleteUserOnPost(username, resp) ==
    IF resp.err # ""
    THEN [returned |-> TRUE, result |-> Err(<<ErrSeg(resp.err)>>)]
    ELSE IF BadStatusCode(resp.code)
    THEN [returned |-> TRUE,
          result |-> Err(<<Lit("delete user failed: http statusCode: "),
                           FmtS(GoInt(resp.code))>>)]
    ELSE [returned |-> FALSE, result |-> NoResult]

\* DeleteUser from ioutil.ReadAll to its return.
DeleteUserOnBody(username, resp) ==
    LET dec == Unmarshal(resp.body)
        status == MapGet(dec.m, "status")
        failed(seg) == Err(<<Lit("delete user failed: "), seg>>)
    IN  IF resp.readErr # "" THEN failed(ErrSeg(resp.readErr))
        ELSE IF dec.err # "" THEN failed(ErrSeg(dec.err))
        ELSE IF ~IsFloat64(status)
        THEN Panic("interface conversion: interface {} is not float64")
        ELSE IF StatusRejected(status) THEN failed(FmtS(MapGet(dec.m, "error")))
        ELSE Ok(<<>>)

\* -------------------------------------------------------------------- inputs
\* The statements a role can carry: JSON objects with each shape of priv the
\* code tests for, objects naming the keys the code overlays, and texts that
\* are no JSON object.
PrivValues ==
    {JNum(0), JNum(1), JStr("0"), JStr("1"), JNull, JBool(FALSE), JBool(TRUE)}

ObjectStatements ==
    {JObject(EmptyMap), JObject("cid" :> JBigNum(2^23, 1))}
    \cup {JObject("priv" :> v) : v \in PrivValues}
    \cup {JObject(("priv" :> JStr("1")) @@ ("action" :> JStr("Drop"))
                  @@ ("token" :> JStr("stmt-token"))
                  @@ ("username" :> JStr("stmt-user"))
                  @@ ("password" :> JStr("stmt-pw")))}

Statements == ObjectStatements \cup {JNullText, JBadText}

OverlaidStatement ==
    JObject(("action" :> JStr("Drop")) @@ ("token" :> JStr("stmt-token"))
            @@ ("username" :> JStr("stmt-user")) @@ ("dbname" :> JStr("db1")))

\* The revocation statements of a role.
RevocationStatements == {JObject(EmptyMap), OverlaidStatement, JNullText, JBadText}

\* Statements.Commands: no statement, one statement, or several.
SeveralStatements ==
    UNION {[1..n -> {JObject("priv" :> JNum(1)), JBadText}] : n \in 2..MaxCommands}

CommandLists == {<<>>} \cup {<<st>> : st \in Statements} \cup SeveralStatements

RevocationLists ==
    {<<>>} \cup {<<st>> : st \in RevocationStatements} \cup SeveralStatements

Passwords == {"pw1", "pw2"}

\* The values of the mysql_token environment variable; "" is unset.
Tokens == {"", "tokA"}

\* credsutil.GenerateUsername is a library call: it yields some name, here
\* "v_" followed by letters and digits, or an error and the empty name.
GenChar(i) ==
    CASE i = 1 -> "v" [] i = 2 -> "_" [] i % 3 = 0 -> "a" [] i % 3 = 1 -> "7"
      [] OTHER -> "b"

GenNames ==
    {[i \in 1..n |-> GenChar(i)] : n \in {maxKeyLength - 1, MaxGenLen}}

GenOutcomes ==
    {[name |-> g, err |-> ""] : g \in GenNames}
    \cup {[name |-> <<>>, err |-> "rand: read failed"]}

\* The usernames the host asks DeleteUser to revoke.
RevokeNames == {<<"V", "_", "A", "7", "_", "r">>, <<"V", "_", "B", "_", "r", "w">>}

\* What the remote service can answer: a transport error, or a status code
\* and a body, whose read can fail.
StatusCodes == {200, 500}

Bodies ==
    {JObject("status" :> JNum(0)),
     JObject(("status" :> JNum(0)) @@ ("error" :> JStr("boom"))),
     JObject(("status" :> JNum(1)) @@ ("error" :> JStr("boom"))),
     JObject(("status" :> JNum(1)) @@ ("error" :> JNum(7))),
     JObject("status" :> JNum(1)),
     JObject("status" :> JStr("0")),
     JObject("error" :> JStr("boom")),
     JNullText, JBadText}

\* What httpClient.Post can return from a remote that answers: a transport
\* error, or a response with a status code whose body is still to be read.
Responses ==
    {[err |-> "dial tcp: i/o timeout", code |-> 0, readErr |-> "", body |-> JBadText]}
    \cup {[err |-> "", code |-> c, readErr |-> "", body |-> JBadText] : c \in StatusCodes}

\* What ioutil.ReadAll can return: a body, or an error.
BodyReads ==
    {[readErr |-> "", body |-> b] : b \in Bodies}
    \cup {[readErr |-> "unexpected EOF", body |-> JBadText]}

\* UpdateUser's request: the username, and a new password or none.
UpdateRequests ==
    {[username |-> <<"V", "_", "A", "7", "_", "r">>, hasPassword |-> FALSE,
      password |-> ""],
     [username |-> <<"V", "_", "B", "_", "r", "w">>, hasPassword |-> TRUE,
      password |-> "pw1"]}

\* The configurations the host initializes the plugin with: one that supplies
\* no timeout, one that supplies a timeout in seconds, and one mapstructure
\* cannot decode.
NoConfig == [decodes |-> TRUE, hasTimeout |-> FALSE, timeout |-> 0]
InitConfigs ==
    {NoConfig,
     [decodes |-> TRUE, hasTimeout |-> TRUE, timeout |-> 30],
     [decodes |-> FALSE, hasTimeout |-> FALSE, timeout |-> 0]}

\* The vault_mysql_db environment variable.
EnvURL == "http://provision.example/api"

\* --------------------------------------------------------------------- state
VARIABLES
    mutex,          \* the producer's sync.Mutex: 0 when free, else the holder
    ConnectionURL,  \* mgtvMysqlConnectionProducer.ConnectionURL
    Timeout,        \* mgtvMysqlConnectionProducer.Timeout, in seconds
    Initialized,    \* mgtvMysqlConnectionProducer.Initialized
    httpClient,     \* mgtvMysqlConnectionProducer.httpClient: its Timeout, 0 for none
    envToken,       \* the process environment's mysql_token
    pc,             \* where each caller is in its call
    frame,          \* the call each caller is in: arguments, locals, request
    ret             \* the call that has just returned to the host

producer == <<ConnectionURL, Timeout, Initialized, httpClient>>

vars == <<mutex, ConnectionURL, Timeout, Initialized, httpClient, envToken, pc,
          frame, ret>>

\* A call's record. The host fixes the arguments when it calls; nothing reads
\* them before the body does, so they are drawn when the body starts.
NoFrame ==
    [op |-> "none", proc |-> 0, statements |-> <<>>, password |-> "",
     hasPassword |-> FALSE,
     genName |-> <<>>, genErr |-> "", tokenRead |-> FALSE, token |-> "", username |-> <<>>,
     request |-> NoRequest, url |-> "", timeout |-> 0,
     posts |-> 0, resp |-> NoResponse, bodyRead |-> FALSE,
     result |-> NoResult]

\* new(): the zero producer.
Init ==
    /\ mutex = 0
    /\ ConnectionURL = ""
    /\ Timeout = 0
    /\ Initialized = FALSE
    /\ httpClient = [Timeout |-> 0]
    /\ envToken \in Tokens
    /\ pc = [p \in Procs |-> "idle"]
    /\ frame = [p \in Procs |-> NoFrame]
    /\ ret = NoFrame

\* ------------------------------------------------------------------- actions
\* The environment sets, changes or unsets mysql_token.
Setenv ==
    /\ \E t \in Tokens : t # envToken /\ envToken' = t
    /\ ret' = NoFrame
    /\ UNCHANGED <<mutex, producer, pc, frame>>

\* os.Getenv(mysqlToken) always yielding the same token.
GetenvFixed == "tokA"

\* os.Getenv(mysqlToken)
Getenv == envToken

\* The operations that begin with c.Lock().
LockingOps == {"NewUser", "DeleteUser", "Initialize"}

\* The host calls NewUser, DeleteUser or Initialize: the caller reaches
\* c.Lock(). Which of the three it is makes no difference while it waits, so
\* the operation is drawn when c.Lock() returns. ret is an observation of the
\* return just made; the next step clears it.
Call(p) ==
    /\ pc[p] = "idle"
    /\ frame' = [frame EXCEPT ![p] = [NoFrame EXCEPT !.op = "locking", !.proc = p]]
    /\ pc' = [pc EXCEPT ![p] = "lock"]
    /\ ret' = NoFrame
    /\ UNCHANGED <<mutex, producer, envToken>>

\* A Lock that never blocks.
CanLockAlways == TRUE

\* sync.Mutex: Lock blocks while the mutex is held.
CanLock == mutex = 0

\* c.Lock() returns.
Lock(p) ==
    /\ pc[p] = "lock"
    /\ CanLock
    /\ mutex' = p
    /\ \E op \in LockingOps : frame' = [frame EXCEPT ![p] = [@ EXCEPT !.op = op]]
    /\ pc' = [pc EXCEPT ![p] = "body"]
    /\ ret' = NoFrame
    /\ UNCHANGED <<producer, envToken>>

\* An exit that leaves the mutex with the caller.
AfterUnlockKept(p) == p

\* The mutex after the deferred c.Unlock() of caller p.
AfterUnlock(p) == 0

\* The deferred c.Unlock() and the return (or the panic) to the host.
Return(p, f, result) ==
    /\ ret' = [f EXCEPT !.result = result]
    /\ frame' = [frame EXCEPT ![p] = NoFrame]
    /\ pc' = [pc EXCEPT ![p] = "idle"]
    /\ mutex' = AfterUnlock(p)

\* The return of a call that holds no lock.
ReturnUnlocked(p, f, result) ==
    /\ ret' = [f EXCEPT !.result = result]
    /\ frame' = [frame EXCEPT ![p] = NoFrame]
    /\ pc' = [pc EXCEPT ![p] = "idle"]
    /\ UNCHANGED mutex

\* A step that carries on inside the call.
Continue(p, f, at) ==
    /\ frame' = [frame EXCEPT ![p] = f]
    /\ pc' = [pc EXCEPT ![p] = at]
    /\ ret' = NoFrame
    /\ UNCHANGED mutex

\* A call of httpClient.Post that sends the request twice.
DispatchTwice(f) ==
    [f EXCEPT !.posts = @ + 2, !.url = ConnectionURL, !.timeout = httpClient.Timeout]

\* c.httpClient.Post(c.ConnectionURL, ...) is called: one POST, to the URL and
\* under the client timeout read at the call.
Dispatch(f) ==
    [f EXCEPT !.posts = @ + 1, !.url = ConnectionURL, !.timeout = httpClient.Timeout]

\* NewUser from after c.Lock() to the call of httpClient.Post.
NewUserBody(p) ==
    /\ pc[p] = "body" /\ frame[p].op = "NewUser"
    /\ \E statements \in CommandLists, password \in Passwords, gen \in GenOutcomes :
          LET token == Getenv
              pre == NewUserPrepare(gen.name, gen.err, token, statements, password)
              f == [frame[p] EXCEPT !.statements = statements,
                                    !.password = password,
                                    !.genName = gen.name,
                                    !.genErr = gen.err,
                                    !.tokenRead = pre.tokenRead,
                                    !.token = IF pre.tokenRead THEN token ELSE "",
                                    !.username = pre.username,
                                    !.request = pre.request]
          IN  IF pre.returned
              THEN Return(p, f, pre.result)
              ELSE Continue(p, Dispatch(f), "post")
    /\ UNCHANGED <<producer, envToken>>

\* DeleteUser from after c.Lock() to the call of httpClient.Post.
DeleteUserBody(p) ==
    /\ pc[p] = "body" /\ frame[p].op = "DeleteUser"
    /\ \E statements \in RevocationLists, username \in RevokeNames :
          LET token == Getenv
              pre == DeleteUserPrepare(username, token, statements)
              f == [frame[p] EXCEPT !.statements = statements,
                                    !.tokenRead = pre.tokenRead,
                                    !.token = IF pre.tokenRead THEN token ELSE "",
                                    !.username = pre.username,
                                    !.request = pre.request]
          IN  IF pre.returned
              THEN Return(p, f, pre.result)
              ELSE Continue(p, Dispatch(f), "post")
    /\ UNCHANGED <<producer, envToken>>

\* http.Client: a Timeout of 0 means no timeout.
HasTimeout(timeout) == timeout > 0

TimeoutResponse ==
    [err |-> "context deadline exceeded (Client.Timeout exceeded while awaiting headers)",
     code |-> 0, readErr |-> "", body |-> JBadText]

TimeoutBody ==
    [readErr |-> "context deadline exceeded (Client.Timeout exceeded while reading body)",
     body |-> JBadText]

\* What httpClient.Post can return for the request of call f: an error at
\* once when the URL is empty, else the remote's answer, and, when the client
\* has a timeout, the timeout's error for a remote that does not answer.
PostResults(f) ==
    IF f.url = ""
    THEN {[err |-> "unsupported protocol scheme", code |-> 0, readErr |-> "",
           body |-> JBadText]}
    ELSE Responses \cup (IF HasTimeout(f.timeout) THEN {TimeoutResponse} ELSE {})

\* What ioutil.ReadAll can return for the response of call f: what the remote
\* sends, and, when the client has a timeout, the timeout's error for a body
\* that does not end.
ReadResults(f) ==
    BodyReads \cup (IF HasTimeout(f.timeout) THEN {TimeoutBody} ELSE {})

\* httpClient.Post returns.
PostReturns(p) ==
    /\ pc[p] = "post"
    /\ \E resp \in PostResults(frame[p]) :
          LET f == [frame[p] EXCEPT !.resp = resp]
              on == IF f.op = "NewUser"
                    THEN NewUserOnPost(f.username, resp)
                    ELSE DeleteUserOnPost(f.username, resp)
          IN  IF on.returned
              THEN Return(p, f, on.result)
              ELSE Continue(p, f, "read")
    /\ UNCHANGED <<producer, envToken>>

\* The remote never answers a request sent by a client with no timeout:
\* httpClient.Post never returns, and the call stays where it is, inside
\* c.Lock() ... c.Unlock().
PostBlocks(p) ==
    /\ pc[p] = "post"
    /\ frame[p].url # ""
    /\ ~HasTimeout(frame[p].timeout)
    /\ pc' = [pc EXCEPT ![p] = "blocked"]
    /\ ret' = NoFrame
    /\ UNCHANGED <<mutex, producer, envToken, frame>>

\* ioutil.ReadAll returns and the call interprets the body.
BodyRead(p) ==
    /\ pc[p] = "read"
    /\ \E read \in ReadResults(frame[p]) :
          LET f == [frame[p] EXCEPT !.bodyRead = TRUE,
                                    !.resp = [@ EXCEPT !.readErr = read.readErr,
                                                       !.body = read.body]]
          IN  Return(p, f, IF f.op = "NewUser"
                           THEN NewUserOnBody(f.username, f.resp)
                           ELSE DeleteUserOnBody(f.username, f.resp))
    /\ UNCHANGED <<producer, envToken>>

\* ---------------------------------------------------------------- UpdateUser
\* An UpdateUser that waits while the mutex is held.
UpdateUserBlockedByLock == mutex # 0

\* UpdateUser calls no c.Lock(): nothing blocks it.
UpdateUserBlocked == FALSE

\* A changeUserPassword that reports that rotation is not implemented.
changeUserPasswordFails(username, password) ==
    Err(<<Lit("password rotation is not implemented")>>)

\* changeUserPassword(ctx, username, password): nothing to do.
changeUserPassword(username, password) == Ok(<<>>)

\* The host calls UpdateUser.
UpdateUserCall(p) ==
    /\ pc[p] = "idle"
    /\ frame' = [frame EXCEPT ![p] = [NoFrame EXCEPT !.op = "UpdateUser", !.proc = p]]
    /\ pc' = [pc EXCEPT ![p] = "update"]
    /\ ret' = NoFrame
    /\ UNCHANGED <<mutex, producer, envToken>>

\* UpdateUser's body and return.
UpdateUserBody(p) ==
    /\ pc[p] = "update"
    /\ ~UpdateUserBlocked
    /\ \E req \in UpdateRequests :
          ReturnUnlocked(p, [frame[p] EXCEPT !.username = req.username,
                                             !.hasPassword = req.hasPassword,
                                             !.password = req.password],
                         IF req.hasPassword
                         THEN changeUserPassword(req.username, req.password)
                         ELSE Ok(<<>>))
    /\ UNCHANGED <<producer, envToken>>

\* ---------------------------------------------------------------- Initialize
\* mgtvMysqlConnectionProducer.Init after c.Lock(): the configuration is
\* decoded into the producer, the URL is taken from the environment, and the
\* deferred c.Unlock() runs. Initialize goes on to initHttpConnPool whatever
\* Init returned.
InitBody(p) ==
    /\ pc[p] = "body" /\ frame[p].op = "Initialize"
    /\ \E config \in InitConfigs :
          /\ IF config.decodes
             THEN /\ Timeout' = IF config.hasTimeout THEN config.timeout ELSE Timeout
                  /\ ConnectionURL' = EnvURL
                  /\ Initialized' = TRUE
             ELSE UNCHANGED <<Timeout, ConnectionURL, Initialized>>
          /\ frame' = [frame EXCEPT ![p] =
                          [@ EXCEPT !.result = IF config.decodes
                                               THEN Ok(<<>>)
                                               ELSE Err(<<ErrSeg("mapstructure: decode failed")>>)]]
    /\ mutex' = AfterUnlock(p)
    /\ pc' = [pc EXCEPT ![p] = "pool"]
    /\ ret' = NoFrame
    /\ UNCHANGED <<httpClient, envToken>>

\* initHttpConnPool, called with no lock held, and Initialize's return.
InitPool(p) ==
    /\ pc[p] = "pool"
    /\ httpClient' = [Timeout |-> Timeout]
    /\ ReturnUnlocked(p, [frame[p] EXCEPT !.result = NoResult], frame[p].result)
    /\ UNCHANGED <<ConnectionURL, Timeout, Initialized, envToken>>

Next ==
    \/ Setenv
    \/ \E p \in Procs : Call(p)
    \/ \E p \in Procs : Lock(p)
    \/ \E p \in Procs : NewUserBody(p)
    \/ \E p \in Procs : DeleteUserBody(p)
    \/ \E p \in Procs : PostReturns(p)
    \/ \E p \in Procs : PostBlocks(p)
    \/ \E p \in Procs : BodyRead(p)
    \/ \E p \in Procs : UpdateUserCall(p)
    \/ \E p \in Procs : UpdateUserBody(p)
    \/ \E p \in Procs : InitBody(p)
    \/ \E p \in Procs : InitPool(p)

Spec == Init /\ [][Next]_vars

\* ==================================================================== claims
\* The calls in view: those in progress and the one that has just returned.
Calls == {frame[p] : p \in Procs} \cup {ret}

Returned(f) == f.result.kind # "none"

EndsWith(str, suffix) ==
    /\ Len(str) >= Len(suffix)
    /\ SubSeq(str, Len(str) - Len(suffix) + 1, Len(str)) = suffix

\* The message holds the string s, the name u, the number n as a segment fmt
\* printed from a value.
MsgHasText(msg, s) == \E i \in 1..Len(msg) : msg[i].k = "string" /\ msg[i].s = s
MsgHasName(msg, u) ==
    \E i \in 1..Len(msg) : msg[i].k \in {"string", "%!f(string=)"} /\ msg[i].u = u
MsgHasNumber(msg, n) ==
    \E i \in 1..Len(msg) : msg[i].k \notin {"lit", "string", "error"} /\ msg[i].n = n

\* ------------------------------------------------------------------------ C1
InExchange(p) == pc[p] \in {"post", "read"}

\* C1: at most one NewUser or DeleteUser call is between the start of its
\* HTTP POST and the end of its response interpretation at any time.
C1_ExchangesNeverOverlap ==
    \A p, q \in Procs : p # q => ~(InExchange(p) /\ InExchange(q))

\* A NewUser call is in its exchange while a DeleteUser call waits at c.Lock().
C1_Witness ==
    \E p, q \in Procs :
        /\ InExchange(p) /\ frame[p].op = "NewUser"
        /\ pc[q] = "lock" /\ frame[q].op = "locking"

\* ------------------------------------------------------------------------ C2
\* NewUser reached the suffixing of the username with a decoded JSON object.
Generated(f) == f.op = "NewUser" /\ f.request.kind = "object"

PrivFalsy(st) ==
    \/ "priv" \notin DOMAIN st.fields
    \/ st.fields["priv"] \in {JNum(0), JStr("0")}

\* C2: for a create-statement that is a JSON object, the generated username
\* ends in _r when priv is absent, the number 0 or the string "0", and in _rw
\* for every other value of priv.
C2_PrivDecidesSuffix ==
    \A f \in Calls :
        Generated(f) =>
            IF PrivFalsy(f.statements[1])
            THEN EndsWith(f.username, <<"_", "r">>)
            ELSE EndsWith(f.username, <<"_", "r", "w">>)

\* ------------------------------------------------------------------------ C3
\* The call got HTTP 200 and a JSON-object body whose status is a number.
NumericStatus(f) ==
    /\ f.bodyRead /\ f.resp.err = "" /\ f.resp.code = 200 /\ f.resp.readErr = ""
    /\ f.resp.body.kind = "object"
    /\ "status" \in DOMAIN f.resp.body.fields
    /\ f.resp.body.fields["status"].j = "number"

MsgHasValue(msg, v) ==
    IF v.j = "string" THEN MsgHasText(msg, v.s) ELSE MsgHasNumber(msg, v.n)

\* C3: with HTTP 200 and a numeric status the call succeeds exactly when
\* status is 0; otherwise it returns an error whose message contains the
\* body's error field, and NewUser returns no username.
C3_StatusDecidesOutcome ==
    \A f \in Calls :
        (Returned(f) /\ NumericStatus(f)) =>
            LET body == f.resp.body.fields
            IN  /\ f.result.kind = "ok" <=> body["status"].n = 0
                /\ (f.op = "NewUser" /\ f.result.kind = "ok") =>
                        f.result.username = f.username
                /\ body["status"].n # 0 =>
                      /\ f.result.kind = "error"
                      /\ f.result.username = <<>>
                      /\ "error" \in DOMAIN body =>
                            MsgHasValue(f.result.msg, body["error"])

\* A DeleteUser call was answered {"status":1,"error":"boom"} and failed.
C3_Witness ==
    /\ ret.op = "DeleteUser" /\ NumericStatus(ret)
    /\ ret.resp.body.fields["status"].n = 1
    /\ MsgHasText(ret.result.msg, "boom")

\* ------------------------------------------------------------------------ C4
\* C4: when the exchange returns a status code other than 200, the call fails
\* with an error naming the username and the status code, and the body is
\* never read.
C4_Non200NamesUserAndCode ==
    \A f \in Calls :
        (Returned(f) /\ f.posts > 0 /\ f.resp.err = "" /\ f.resp.code # 200) =>
            /\ f.result.kind = "error"
            /\ ~f.bodyRead
            /\ MsgHasName(f.result.msg, f.username)
            /\ MsgHasNumber(f.result.msg, f.resp.code)

\* ------------------------------------------------------------------------ C5
TokenMissingError == Err(<<Lit("not exist mysql token")>>)

\* C5: when the token NewUser reads from the environment is empty, NewUser
\* returns the token-missing error and performs no POST, whatever the
\* statements and the password.
C5_EmptyTokenStopsNewUser ==
    \A f \in Calls :
        (f.op = "NewUser" /\ f.tokenRead /\ f.token = "") =>
            /\ f.result = TokenMissingError
            /\ f.posts = 0
            /\ f.request = NoRequest

\* NewUser read an empty token with one well-formed statement at hand.
C5_Witness ==
    /\ ret.op = "NewUser" /\ ret.tokenRead /\ ret.token = ""
    /\ ret.statements = <<JObject("priv" :> JNum(1))>>
    /\ ret.password = "pw2"

\* ------------------------------------------------------------------------ C6
\* C6: NewUser with no or several create-statements, and DeleteUser with no
\* revocation statement, return a validation error and perform no POST.
C6_StatementCountValidated ==
    \A f \in Calls :
        /\ (f.op = "NewUser" /\ Returned(f) /\ Len(f.statements) # 1) =>
              /\ f.result.kind = "error"
              /\ f.posts = 0
              /\ f.request = NoRequest
              /\ (f.tokenRead /\ f.token # "") =>
                    f.result.msg =
                        IF Len(f.statements) = 0
                        THEN <<Lit("create_statement is empty")>>
                        ELSE <<Lit("a maximum of one create_statement is supported")>>
        /\ (f.op = "DeleteUser" /\ Returned(f) /\ Len(f.statements) = 0) =>
              /\ f.result.kind = "error"
              /\ f.posts = 0
              /\ f.request = NoRequest
              /\ MsgHasName(f.result.msg, f.username)
        /\ (f.op = "NewUser" /\ f.posts > 0) => Len(f.statements) = 1
        /\ (f.op = "DeleteUser" /\ f.posts > 0) => Len(f.statements) >= 1

\* NewUser was refused two statements although the token was set.
C6_Witness ==
    /\ ret.op = "NewUser" /\ Len(ret.statements) = 2
    /\ ret.tokenRead /\ ret.token # ""
    /\ ret.result.kind = "error"

\* ------------------------------------------------------------------------ C7
\* C7: DeleteUser dispatches a request only when exactly one revocation
\* statement is present.
C7_RevokeDispatchesOnlyOnOneStatement ==
    \A f \in Calls :
        (f.op = "DeleteUser" /\ f.posts > 0) => Len(f.statements) = 1

\* ------------------------------------------------------------------------ C8
\* The call's input fails validation: no token, a wrong number of statements,
\* or a statement that is no JSON object.
FailsValidation(f) ==
    \/ f.tokenRead /\ f.token = ""
    \/ f.op = "NewUser" /\ f.tokenRead /\ Len(f.statements) # 1
    \/ f.op = "DeleteUser" /\ f.statements = <<>> /\ Returned(f)
    \/ f.statements # <<>> /\ f.tokenRead /\ f.statements[1].kind # "object"

\* C8: every validation failure aborts before any network I/O in both
\* operations; with an empty token DeleteUser performs no POST.
C8_ValidationBeforeNetwork ==
    \A f \in Calls :
        (f.op \in {"NewUser", "DeleteUser"} /\ FailsValidation(f)) => f.posts = 0

\* ------------------------------------------------------------------------ C9
LowerCase == {"a", "b", "r", "v", "w"}

\* The username without the suffix NewUser appended.
PreSuffix(username) ==
    IF EndsWith(username, <<"_", "r", "w">>)
    THEN SubSeq(username, 1, Len(username) - 3)
    ELSE SubSeq(username, 1, Len(username) - 2)

\* C9: the portion of a generated username before the _r or _rw suffix has
\* length at most 13 and is upper-case.
C9_PreSuffixTruncatedUpper ==
    \A f \in Calls :
        Generated(f) =>
            /\ EndsWith(f.username, <<"_", "r", "w">>) \/ EndsWith(f.username, <<"_", "r">>)
            /\ Len(PreSuffix(f.username)) <= 13
            /\ \A i \in 1..Len(PreSuffix(f.username)) :
                   PreSuffix(f.username)[i] \notin LowerCase
            /\ f.request.fields["username"].u = f.username

\* NewUser returned a username made from a generated name longer than 13.
C9_Witness ==
    /\ ret.op = "NewUser" /\ ret.result.kind = "ok"
    /\ Len(ret.genName) > 13
    /\ Len(PreSuffix(ret.result.username)) = 13

\* ----------------------------------------------------------------------- C10
\* C10: the final suffixed username in the request and in the response never
\* exceeds 13 characters.
C10_FinalUsernameAtMost13 ==
    \A f \in Calls :
        Generated(f) =>
            /\ Len(f.request.fields["username"].u) <= 13
            /\ Len(f.result.username) <= 13

\* C10 as amended: the final suffixed username never exceeds 16 characters,
\* the 13 of the pre-suffix portion and the 3 of "_rw".
C10_FinalUsernameAtMost16 ==
    \A f \in Calls :
        Generated(f) =>
            /\ Len(f.request.fields["username"].u) <= 16
            /\ Len(f.result.username) <= 16

\* NewUser returned a username of 16 characters.
C10_Witness ==
    /\ ret.op = "NewUser" /\ ret.result.kind = "ok"
    /\ Len(ret.result.username) = 16
    /\ ret.request.fields["username"].u = ret.result.username

\* ----------------------------------------------------------------------- C11
\* A step of an UpdateUser call: the call is made, or it returns.
UpdateUserStep(p) ==
    /\ pc'[p] # pc[p]
    /\ frame[p].op = "UpdateUser" \/ frame'[p].op = "UpdateUser"

\* C11: UpdateUser is a no-op for every input: with or without a new password
\* and for any username it returns no error, performs no HTTP POST, and no
\* step of it changes the producer's connection URL, HTTP client, timeout,
\* Initialized flag or lock.
C11_UpdateIsNoOp ==
    [][\A p \in Procs :
          UpdateUserStep(p) =>
              /\ UNCHANGED <<mutex, producer>>
              /\ pc'[p] = "idle" =>
                    /\ ret'.op = "UpdateUser"
                    /\ ret'.result = Ok(<<>>)
                    /\ ret'.posts = 0 /\ ret'.request = NoRequest]_vars

\* UpdateUser returned from a call with a new password, made to an
\* initialized producer while another call holds the lock.
C11_Witness ==
    /\ ret.op = "UpdateUser" /\ ret.hasPassword /\ ret.result = Ok(<<>>)
    /\ Initialized /\ mutex # 0

\* ----------------------------------------------------------------------- C12
\* The request the call's own arguments and token make.
OwnRequest(f) ==
    IF f.op = "NewUser"
    THEN NewUserPrepare(f.genName, f.genErr, f.token, f.statements,
                        f.password).request
    ELSE DeleteUserPrepare(f.username, f.token, f.statements).request

\* C12: each NewUser or DeleteUser call performs at most one HTTP POST, and
\* exactly one when validation and the serialization of the request succeed;
\* a call that returns after a failure of the POST or of the response has
\* still sent one POST only, and the request a call sends is the one made
\* from its own arguments, never an earlier call's.
C12_AtMostOnePost ==
    \A f \in Calls :
        f.op \in {"NewUser", "DeleteUser"} =>
            /\ f.posts \in {0, 1}
            /\ f.posts = 1 <=> f.request.kind = "object"
            /\ f.posts = 1 => f.request = OwnRequest(f)
            /\ f.resp # NoResponse => f.posts = 1

\* NewUser returned the error of an HTTP 500 after one POST, while another
\* call waits for the lock.
C12_Witness ==
    /\ ret.op = "NewUser" /\ ret.result.kind = "error"
    /\ ret.resp.code = 500 /\ ret.posts = 1
    /\ \E q \in Procs : pc[q] = "lock"

\* ----------------------------------------------------------------------- C13
\* The keys NewUser sets in the request.
NewUserKeys == {"action", "token", "password", "username"}

\* The request holds the string s, the computed string u, under key k.
HasString(request, k, s) == k \in DOMAIN request.fields /\ request.fields[k] = JStr(s)
HasName(request, k, u) ==
    /\ k \in DOMAIN request.fields
    /\ request.fields[k].j = "string" /\ request.fields[k].u = u

\* Every key of the statement outside keys is in the request with the
\* statement's value.
OtherKeysUnchanged(f, keys) ==
    \A k \in DOMAIN f.statements[1].fields \ keys :
        /\ k \in DOMAIN f.request.fields
        /\ f.request.fields[k] = f.statements[1].fields[k]

\* C13: in every request NewUser dispatches, action is AddUser, token is the
\* environment token, password is the host's password and username is the
\* generated suffixed username, whatever the statement holds under those
\* keys, and every other key of the statement is in the request with its
\* value unchanged; in every request DeleteUser dispatches, action is
\* VaultDelUser, username is the username given and token is the environment
\* token.
C13_RequestOverlay ==
    \A f \in Calls :
        f.request.kind = "object" =>
            IF f.op = "NewUser"
            THEN /\ HasString(f.request, "action", addUser)
                 /\ HasString(f.request, "token", f.token)
                 /\ HasString(f.request, "password", f.password)
                 /\ HasName(f.request, "username", f.username)
                 /\ OtherKeysUnchanged(f, NewUserKeys)
            ELSE /\ HasString(f.request, "action", delUser)
                 /\ HasString(f.request, "token", f.token)
                 /\ HasName(f.request, "username", f.username)

\* ----------------------------------------------------------------------- C14
\* The tokens and passwords the call is run again with.
OtherTokens == {"tokA", "tokB"}
OtherPasswords == {"pw1", "pw2", "pw3"}

\* The result of the call f run again with the same arguments, the same
\* generated name and the same remote behaviour, under another token and
\* password.
Rerun(f, token, password) ==
    IF f.op = "NewUser"
    THEN LET pre == NewUserPrepare(f.genName, f.genErr, token, f.statements, password)
             on == NewUserOnPost(pre.username, f.resp)
         IN  IF pre.returned THEN pre.result
             ELSE IF on.returned THEN on.result
             ELSE NewUserOnBody(pre.username, f.resp)
    ELSE LET pre == DeleteUserPrepare(f.username, token, f.statements)
             on == DeleteUserOnPost(pre.username, f.resp)
         IN  IF pre.returned THEN pre.result
             ELSE IF on.returned THEN on.result
             ELSE DeleteUserOnBody(pre.username, f.resp)

\* The call returned an error to the host, and not for want of a token.
ReturnedError(f) ==
    /\ f.op \in {"NewUser", "DeleteUser"}
    /\ f.result.kind = "error"
    /\ ~(f.op = "NewUser" /\ f.tokenRead /\ f.token = "")

\* C14: no error NewUser or DeleteUser returns depends on the token or the
\* password: the same call with the same inputs and the same remote behaviour
\* under any other non-empty token and any other password returns the same
\* error, and no part of the message is the token or the password.
C14_ErrorsIndependentOfSecrets ==
    \A f \in Calls :
        ReturnedError(f) =>
            /\ \A token \in OtherTokens, password \in OtherPasswords :
                  Rerun(f, token, password) = f.result
            /\ \A i \in 1..Len(f.result.msg) :
                  f.result.msg[i].s \notin ({f.token, f.password} \ {""})

\* NewUser, run with a token and a password, returned the error the remote
\* service gave in its answer.
C14_Witness ==
    /\ ret.op = "NewUser" /\ ret.result.kind = "error"
    /\ ret.token = "tokA" /\ ret.password = "pw2"
    /\ ret.posts = 1 /\ ret.bodyRead
    /\ MsgHasText(ret.result.msg, "boom")

\* ----------------------------------------------------------------------- C15
\* C15: UpdateUser is not serialized against NewUser, DeleteUser or other
\* UpdateUser calls: whoever holds the lock and whatever the other callers
\* are doing, an idle caller can start an UpdateUser and a started UpdateUser
\* can complete, and a caller in UpdateUser neither holds the lock nor waits
\* for it.
C15_UpdateNotSerialized ==
    \A p \in Procs :
        /\ pc[p] = "idle" => ENABLED UpdateUserCall(p)
        /\ pc[p] = "update" => ENABLED UpdateUserBody(p)
        /\ frame[p].op = "UpdateUser" => pc[p] = "update" /\ mutex # p

\* An UpdateUser has completed while another caller holds the lock and is in
\* its network exchange.
C15_Witness ==
    /\ ret.op = "UpdateUser" /\ Returned(ret)
    /\ \E q \in Procs : InExchange(q) /\ mutex = q

\* ----------------------------------------------------------------------- C16
\* The remote service answered HTTP 200 with a JSON object whose status is
\* absent or is no number, and the call has read it.
NonNumericStatus(f) ==
    /\ f.op \in {"NewUser", "DeleteUser"} /\ f.bodyRead
    /\ f.resp.err = "" /\ f.resp.code = 200 /\ f.resp.readErr = ""
    /\ f.resp.body.kind = "object"
    /\ \/ "status" \notin DOMAIN f.resp.body.fields
       \/ f.resp.body.fields["status"].j # "number"

\* C16: when the remote service answers HTTP 200 with a JSON object in which
\* status is absent or is not a number, NewUser and DeleteUser never report
\* success: the call ends in the panic of a failed type assertion, not in a
\* returned error, and NewUser yields no username.
C16_NonNumericStatusPanics ==
    \A f \in Calls :
        NonNumericStatus(f) =>
            /\ f.result.kind = "panic"
            /\ f.result.username = <<>>

\* NewUser ended on a body whose status is the string "0".
C16_Witness ==
    /\ NonNumericStatus(ret)
    /\ ret.op = "NewUser"
    /\ ret.resp.body = JObject("status" :> JStr("0"))

\* ----------------------------------------------------------------------- C17
\* Caller p, inside c.Lock() ... c.Unlock(), can take the next step of its
\* call.
CanProceed(p) ==
    ENABLED (NewUserBody(p) \/ DeleteUserBody(p) \/ InitBody(p)
             \/ PostReturns(p) \/ BodyRead(p))

\* C17: every call that has acquired the lock goes on to terminate and
\* release it, its blocking steps being bounded by the request timeout, under
\* every configuration Initialize accepts, also one with no timeout: the
\* holder of the lock is never at a step that will not return.
C17_LockHolderProceeds == \A p \in Procs : mutex = p => CanProceed(p)

\* ----------------------------------------------------------------------- C18
\* Caller p, holding the lock, calls httpClient.Post in this step.
Dispatches(p) == pc[p] = "body" /\ pc'[p] = "post"

\* Caller p is between the call of httpClient.Post and its own return.
Dispatched(p) == pc[p] \in {"post", "read", "blocked"}

\* C18: the token in each dispatched request is the value the environment
\* holds when the call, having acquired the lock, reads it, never a value
\* from an earlier call; and from the dispatch to the call's return no
\* change of the environment alters the call's request.
C18_TokenReadInCall ==
    [][\A p \in Procs :
          /\ Dispatches(p) =>
                /\ mutex = p
                /\ frame'[p].request.fields["token"] = JStr(envToken)
          /\ Dispatched(p) =>
                IF pc'[p] = "idle"
                THEN ret'.request = frame[p].request
                ELSE frame'[p].request = frame[p].request]_vars

\* A NewUser is in its network exchange with the token it read, and the
\* environment no longer holds that token.
C18_Witness ==
    \E p \in Procs :
        /\ InExchange(p) /\ frame[p].op = "NewUser"
        /\ frame[p].request.fields["token"] = JStr("tokA")
        /\ envToken # "tokA"

\* ----------------------------------------------------------------------- C19
\* Caller p is in NewUser, DeleteUser or Init, past c.Lock() and before the
\* return.
InLockedCall(p) == pc[p] \in {"body", "post", "read", "blocked"}

\* C19: the lock is released on every exit path of NewUser, DeleteUser and
\* Init, the errors and the panic on a non-numeric status included: whenever
\* no NewUser, DeleteUser or Init call is in progress the lock is free, and a
\* held lock belongs to a caller that is in such a call.
C19_LockReleasedOnEveryExit ==
    /\ (\A p \in Procs : ~InLockedCall(p)) => mutex = 0
    /\ \A p \in Procs : mutex = p => InLockedCall(p)
    /\ ret.op \in LockingOps => mutex # ret.proc

\* DeleteUser ended in the panic on a status that is no number, every caller
\* is back with the host and the lock is free.
C19_Witness ==
    /\ ret.op = "DeleteUser" /\ ret.result.kind = "panic" /\ ret.bodyRead
    /\ \A p \in Procs : pc[p] = "idle"
    /\ mutex = 0

\* ----------------------------------------------------------------------- C20
\* Caller p, in Initialize, writes c.ConnectionURL, c.httpClient in this step.
WritesURL(p) == pc[p] = "body" /\ frame[p].op = "Initialize" /\ pc'[p] = "pool"
WritesClient(p) == pc[p] = "pool" /\ pc'[p] = "idle"

\* A NewUser or DeleteUser call is between acquiring and releasing the lock.
UserCallHoldsLock ==
    \E q \in Procs : mutex = q /\ frame[q].op \in {"NewUser", "DeleteUser"}

\* C20: every write Initialize makes to the connection URL and to the HTTP
\* client is made while the writer holds the lock, so neither is written
\* while a NewUser or DeleteUser call is between acquiring and releasing the
\* lock.
C20_InitializeWritesUnderLock ==
    [][\A p \in Procs :
          (WritesURL(p) \/ WritesClient(p)) =>
              /\ mutex = p
              /\ ~UserCallHoldsLock]_vars

====
